---- MODULE Spec2Model ----
(***************************************************************************)
(* BgeM3Embedder (samples/python/bge_m3_embedder.py): one encode call as a  *)
(* state machine, and the post-processing of the model's three output      *)
(* tensors (dense row, sparse max-pooling and per-id aggregation, ColBERT   *)
(* vector extraction).                                                      *)
(*                                                                          *)
(* Representation.  A numpy array of shape [batch, ...] is a record whose   *)
(* field batch is shape[0] and whose field seq (row for the dense tensor)   *)
(* is the content of batch row 0; shape[1] is Len(seq).  Batch rows other   *)
(* than row 0 are never read by the code and are not represented.  With     *)
(* batch = 0 there is no row 0 and reading it raises IndexError.  Python    *)
(* positions are 0-based, sequence indices here are 1-based.  Floating      *)
(* point weights are integers (tenths), which keeps order, max and sum.     *)
(* A Python str is the sequence of its characters.                          *)
(***************************************************************************)
EXTENDS Integers, Sequences, FiniteSets, TLC

\* ------------------------------------------------------------------ bounds

\* Longest token sequence the tokenizer emits in the model.
MaxLen == 3

\* Token ids the tokenizer may emit: 2 = [CLS] (special), 15 and 501 ordinary.
TokenIds == {2, 15, 501}

\* Sample rows of the sparse tensor along the hidden dimension (weights in
\* tenths), one set per hidden size.  The maximum is at the last, the first or
\* the middle element; it is positive, zero or negative.
SparseRowSets == {{<<2, 8>>, <<3, 1>>, <<-1, 0>>},
                  {<<1, 8, 2>>, <<3, 0, -1>>, <<-2, -1, -1>>}}

\* ------------------------------------------------------- program constants

\* self.special_token_ids = {0, 1, 2, 3}
SpecialTokenIds == {0, 1, 2, 3}

\* The attributes of one BgeM3Embedder.
VARIABLES
    special_token_ids,  \* self.special_token_ids
    provider,           \* self.provider
    device_id,          \* self.device_id
    tokenizer_session,  \* self.tokenizer_session: [present, providers]
    model_session,      \* self.model_session: [present, providers, active]
    provider_arg        \* the provider argument __init__ was given

embedder == <<special_token_ids, provider, device_id, tokenizer_session,
              model_session>>

\* Provider strings, as sequences of characters.
Cpu == <<"c", "p", "u">>
Cuda == <<"c", "u", "d", "a">>

\* str.lower() on one character of the letters that occur in the provider
\* strings.
LowerChar(c) ==
    CASE c = "A" -> "a" [] c = "C" -> "c" [] c = "D" -> "d"
      [] c = "G" -> "g" [] c = "P" -> "p" [] c = "U" -> "u"
      [] OTHER -> c

\* provider.lower()
PyLower(str) == [k \in 1..Len(str) |-> LowerChar(str[k])]

\* An InferenceSession created with the given provider list, all of whose
\* providers were registered.
Session(providers) ==
    [present |-> TRUE, providers |-> providers, active |-> providers]

\* The InferenceSessions the runtime can create for a provider list: with
\* all providers, or without a CUDA provider that is not available on the
\* machine.  active is what get_providers() returns.
Sessions(providers) ==
    {Session(providers)}
    \cup (IF providers[1] = "CUDAExecutionProvider"
          THEN {[present |-> TRUE, providers |-> providers,
                 active |-> Tail(providers)]}
          ELSE {})

\* The attribute after del.
NoSession == [present |-> FALSE, providers |-> <<>>, active |-> <<>>]

\* Mutant of GetModelProviders: the CPU provider comes first.
GetModelProvidersCpuFirst(p) ==
    IF p = Cuda THEN <<"CPUExecutionProvider", "CUDAExecutionProvider">>
    ELSE <<"CPUExecutionProvider">>

\* _get_model_providers with self.provider = p, by the provider names.
GetModelProviders(p) ==
    IF p = Cuda THEN <<"CUDAExecutionProvider", "CPUExecutionProvider">>
    ELSE <<"CPUExecutionProvider">>

\* __init__ with provider argument p and device id d.
Construct(p, d) ==
    /\ provider_arg = p
    /\ provider = PyLower(p)
    /\ device_id = d
    /\ special_token_ids = SpecialTokenIds
    /\ tokenizer_session = Session(<<"CPUExecutionProvider">>)
    /\ model_session \in Sessions(GetModelProviders(PyLower(p)))

\* create_cpu_embedder(tokenizer_path, model_path)
create_cpu_embedder == Construct(Cpu, 0)

\* create_cuda_embedder(tokenizer_path, model_path, device_id)
create_cuda_embedder(d) == Construct(Cuda, d)

\* --------------------------------------------------------------- helpers

Range(s) == {s[k] : k \in 1..Len(s)}

\* All sequences over S of length exactly n.
SeqsOfLen(S, n) == [1..n -> S]

\* All sequences over S of length at most n.
SeqsUpTo(S, n) == UNION {SeqsOfLen(S, k) : k \in 0..n}

\* Python's built-in max(a, b) on two numbers.
PyMax(a, b) == IF b > a THEN b ELSE a

\* str(int): the decimal digits, most significant first, "-" before a
\* negative number.
DigitChar(d) == <<"0", "1", "2", "3", "4", "5", "6", "7", "8", "9">>[d + 1]

RECURSIVE NatToStr(_)
NatToStr(n) ==
    IF n < 10 THEN <<DigitChar(n)>>
    ELSE NatToStr(n \div 10) \o <<DigitChar(n % 10)>>

\* Mutant of PyStr: only the last digit is written.
PyStrLastDigit(n) == <<DigitChar(n % 10)>>

PyStr(n) == IF n < 0 THEN <<"-">> \o NatToStr(-n) ELSE NatToStr(n)

\* The empty dict {}.
EmptyDict == [k \in {} |-> 0]

\* dict.get(key, default)
DictGet(d, key, default) == IF key \in DOMAIN d THEN d[key] ELSE default

\* d[key] = value
DictSet(d, key, value) ==
    [k \in (DOMAIN d) \cup {key} |-> IF k = key THEN value ELSE d[k]]

\* ----------------------------------------- _convert_tokenizer_outputs

\* list(zip(token_indices, tokens)): pairs <<index, token>>, as many as the
\* shorter argument has.
ZipPairs(token_indices, tokens) ==
    LET n == IF Len(tokens) < Len(token_indices) THEN Len(tokens)
             ELSE Len(token_indices)
    IN  [k \in 1..n |-> <<token_indices[k], tokens[k]>>]

\* Mutant of PairLess: the pairs are built (token, index), so the sort orders
\* by token value.
PairLessByToken(p, q) == p[2] < q[2] \/ (p[2] = q[2] /\ p[1] < q[1])

\* Python's tuple order p < q on pairs: by the first component, ties by the
\* second.
PairLess(p, q) == p[1] < q[1] \/ (p[1] = q[1] /\ p[2] < q[2])

\* Insertion of p into the sorted sequence s, after every element that is not
\* greater than p (list.sort is stable).
RECURSIVE InsertSorted(_, _)
InsertSorted(p, s) ==
    IF s = <<>> THEN <<p>>
    ELSE IF PairLess(p, Head(s)) THEN <<p>> \o s
    ELSE <<Head(s)>> \o InsertSorted(p, Tail(s))

\* token_pairs.sort()
RECURSIVE SortPairs(_)
SortPairs(s) ==
    IF s = <<>> THEN <<>>
    ELSE InsertSorted(s[Len(s)], SortPairs(SubSeq(s, 1, Len(s) - 1)))

\* ordered_tokens = [pair[1] for pair in token_pairs]
OrderedTokens(tokens, token_indices) ==
    LET token_pairs == SortPairs(ZipPairs(token_indices, tokens))
    IN  [k \in 1..Len(token_pairs) |-> token_pairs[k][2]]

\* Mutant of OnesLike: the mask is one entry short.
OnesLikeShort(input_ids) == [k \in 1..(Len(input_ids) - 1) |-> 1]

\* np.ones_like(input_ids): row 0 of the mask.
OnesLike(input_ids) == [k \in 1..Len(input_ids) |-> 1]

\* ---------------------------------------------- encode: dense embeddings

\* Mutant of DenseVecs: the last element of the row is cut off.
DenseVecsDropLast(de) ==
    IF de.batch = 0 THEN [err |-> "IndexError", value |-> <<>>]
    ELSE [err |-> "none", value |-> SubSeq(de.row, 1, Len(de.row) - 1)]

\* dense_embeddings[0].tolist(): IndexError when the batch dimension is 0.
DenseVecs(de) ==
    IF de.batch = 0 THEN [err |-> "IndexError", value |-> <<>>]
    ELSE [err |-> "none", value |-> de.row]

\* ------------------------------------------------ encode: sparse weights

\* Mutant of KeepSparse: the attention mask is not consulted.
KeepSparseNoMask(ids, mask, i) == ids[i] \notin special_token_ids

\* Mutant of KeepSparse: special tokens are not filtered.
KeepSparseNoSpecial(ids, mask, i) == mask[i] = 1

\* attention_mask[0, i] == 1 and token_id not in self.special_token_ids
KeepSparse(ids, mask, i) == mask[i] = 1 /\ ids[i] \notin special_token_ids

\* Mutant of NpMax: the first element of the row instead of its maximum.
NpFirst(row) == row[1]

\* np.max(row): the largest element of a non-empty row.
NpMax(row) == CHOOSE m \in Range(row) : \A x \in Range(row) : x <= m

\* Mutant of WeightPositive: a weight of zero is stored too.
WeightNonNegative(weight) == weight >= 0

\* if weight > 0
WeightPositive(weight) == weight > 0

\* Mutant of Upsert: the last weight seen overwrites the stored one.
UpsertLastSeen(d, token_id, weight) == DictSet(d, PyStr(token_id), weight)

\* sparse_dict[str(token_id_int)] =
\*     max(sparse_dict.get(str(token_id_int), 0), float(weight))
\* float() of a float32 is exact, so the weight keeps its value.
Upsert(d, token_id, weight) ==
    DictSet(d, PyStr(token_id), PyMax(DictGet(d, PyStr(token_id), 0), weight))

\* The loop over enumerate(input_ids[0]) from position i on, with the dict
\* built so far.  sparse_weights[0, i] raises IndexError when the tensor has
\* no batch row 0 or no position i; the read happens only for a kept position.
RECURSIVE SparseLoop(_, _, _, _, _)
SparseLoop(ids, mask, sw, i, d) ==
    IF i > Len(ids) THEN [err |-> "none", value |-> d]
    ELSE IF ~KeepSparse(ids, mask, i) THEN SparseLoop(ids, mask, sw, i + 1, d)
    ELSE IF sw.batch = 0 \/ i > Len(sw.seq)
         THEN [err |-> "IndexError", value |-> d]
    ELSE LET weight == NpMax(sw.seq[i])
         IN  IF WeightPositive(weight)
             THEN SparseLoop(ids, mask, sw, i + 1, Upsert(d, ids[i], weight))
             ELSE SparseLoop(ids, mask, sw, i + 1, d)

SparseDict(ids, mask, sw) == SparseLoop(ids, mask, sw, 1, EmptyDict)

\* ------------------------------------------------ encode: ColBERT vectors

\* Mutant of KeepColbert: the attention mask is not consulted.
KeepColbertAll(mask, i) == TRUE

\* if attention_mask[0, i] == 1
KeepColbert(mask, i) == mask[i] = 1

\* The loop over range(colbert_vectors.shape[1]) from position i on, with the
\* list built so far.  attention_mask[0, i] raises IndexError when the tensor
\* has more positions than the mask; colbert_vectors[0, i] raises it when the
\* tensor has no batch row 0.
RECURSIVE ColbertLoop(_, _, _, _)
ColbertLoop(mask, cv, i, acc) ==
    IF i > Len(cv.seq) THEN [err |-> "none", value |-> acc]
    ELSE IF i > Len(mask) THEN [err |-> "IndexError", value |-> acc]
    ELSE IF ~KeepColbert(mask, i) THEN ColbertLoop(mask, cv, i + 1, acc)
    ELSE IF cv.batch = 0 THEN [err |-> "IndexError", value |-> acc]
    ELSE ColbertLoop(mask, cv, i + 1, Append(acc, cv.seq[i]))

\* Mutant of ColbertList: every row of the tensor is taken, whatever the
\* number of input positions.
ColbertListAllRows(mask, cv) == [err |-> "none", value |-> cv.seq]

ColbertList(mask, cv) == ColbertLoop(mask, cv, 1, <<>>)

\* Mutant of EncodeResult: as many vectors are returned as the mapping has
\* keys.
EncodeResultCoupled(dv, sd, cl) ==
    [dense_vecs |-> dv,
     lexical_weights |-> sd,
     colbert_vecs |-> SubSeq(cl, 1, Cardinality(DOMAIN sd))]

\* The dict encode returns.
EncodeResult(dv, sd, cl) ==
    [dense_vecs |-> dv, lexical_weights |-> sd, colbert_vecs |-> cl]

\* ------------------------------------------------------------- the state

VARIABLES
    pc,                \* where the encode call is
    tokens,            \* tokenizer output 0: token ids, in emission order
    token_indices,     \* tokenizer output 2: the position of each token
    input_ids,         \* input_ids[0]
    attention_mask,    \* attention_mask[0]
    dense_embeddings,  \* model output 0: [batch, row]
    sparse_weights,    \* model output 1: [batch, seq of rows]
    colbert_vectors,   \* model output 2: [batch, seq of rows]
    dense_vecs,        \* local dense_vecs
    sparse_dict,       \* local sparse_dict
    colbert_list,      \* local colbert_list
    result,            \* <<>> while nothing is returned, <<dict>> once returned
    err                \* the exception raised to the caller, "none" if none

\* The code around the embedder.
VARIABLES
    calls,             \* encode calls begun so far
    with_state,        \* the with-statement: "none", "entered", "exited"
    with_target,       \* what the with-statement bound with "as"
    with_err,          \* the exception the with-statement raised at its end
    last,              \* what the previous encode call gave its caller
    other,             \* the frame of a second, concurrent encode call
    info,              \* what the last get_provider_info() call gave
    closes,            \* close() calls made so far
    bench,             \* a BenchmarkRunner method call
    gen                \* a generate_test_dataset call

\* The scripts that are not running and the argument of the constructor.
scripts == <<provider_arg, info, closes, bench, gen>>

around == <<calls, with_state, with_target, with_err, last, other, scripts>>

vars == <<pc, tokens, token_indices, input_ids, attention_mask,
          dense_embeddings, sparse_weights, colbert_vectors,
          dense_vecs, sparse_dict, colbert_list, result, err,
          special_token_ids, provider, device_id, tokenizer_session,
          model_session, calls, with_state, with_target, with_err, last,
          other, provider_arg, info, closes, bench, gen>>

\* No second call.
NoFrame == [pc |-> "none"]

\* get_provider_info was not called.
NoInfo == [value |-> <<>>, err |-> "none"]

\* No benchmark and no dataset generation is running.
NoBench == [pc |-> "none"]
NoGen == [pc |-> "none"]

NoScripts ==
    /\ info = NoInfo
    /\ closes = 0
    /\ bench = NoBench
    /\ gen = NoGen

\* One encode call on a CPU embedder, outside any with-statement.
OneCall ==
    /\ create_cpu_embedder
    /\ calls = 1
    /\ with_state = "none"
    /\ with_target = "none"
    /\ with_err = "none"
    /\ last = <<>>
    /\ other = NoFrame
    /\ NoScripts

\* Mutant of EncodeSelf: encode remembers the token ids it saw.
EncodeSelfCaching ==
    /\ special_token_ids' = special_token_ids \cup Range(input_ids)
    /\ UNCHANGED <<provider, device_id, tokenizer_session, model_session>>

\* encode assigns no attribute of self.
EncodeSelf == UNCHANGED embedder

\* A tensor that was not produced yet.
NoDense == [batch |-> 0, row |-> <<>>]
NoTensor == [batch |-> 0, seq |-> <<>>]

\* ------------------------------------------------------ external outputs

\* Permutations of 0..n-1 as sequences of length n.
Permutations0(n) == {f \in SeqsOfLen(0..(n - 1), n) : Range(f) = 0..(n - 1)}

\* Tokenizer outputs that keep the tokenizer's contract: parallel arrays, the
\* indices a permutation of 0..n-1.
TokenizerOutputs ==
    UNION {SeqsOfLen(TokenIds, n) \X Permutations0(n) : n \in 0..MaxLen}

\* Tokenizer outputs with arbitrary indices in 0..n: duplicates, gaps and an
\* index beyond the last position included.
AnyTokenizerOutputs ==
    UNION {SeqsOfLen(TokenIds, n) \X SeqsOfLen(0..n, n) : n \in 0..MaxLen}

\* Row k of the sample multi-vector tensor: all rows differ and their first
\* components neither rise nor fall with the position.
ColbertRow(k) == <<(2 * k) % 5, k>>
ColbertSeq(n) == [k \in 1..n |-> ColbertRow(k)]

\* The sample dense row.
DenseRow == <<5, -6, 7>>

\* Lengths of a position dimension that is n, one shorter or one longer.
NearLens(n) == {k \in {n - 1, n, n + 1} : k >= 0}

\* Model outputs for n input positions with every sparse row equal to r:
\* the shapes of the model's contract, or one tensor off in one dimension.
ModelOutputs(n, r) ==
    LET goodD == [batch |-> 1, row |-> DenseRow]
        goodS == [batch |-> 1, seq |-> [k \in 1..n |-> r]]
        goodC == [batch |-> 1, seq |-> ColbertSeq(n)]
    IN  {<<goodD, goodS, goodC>>}
        \cup {<<[batch |-> b, row |-> DenseRow], goodS, goodC>> : b \in {0, 2}}
        \cup {<<[batch |-> 1, row |-> <<>>], goodS, goodC>>}
        \cup {<<goodD, [batch |-> b, seq |-> goodS.seq], goodC>> : b \in {0, 2}}
        \cup {<<goodD, [batch |-> 1, seq |-> [k \in 1..m |-> r]], goodC>> :
                 m \in NearLens(n)}
        \cup {<<goodD, goodS, [batch |-> b, seq |-> goodC.seq]>> : b \in {0, 2}}
        \cup {<<goodD, goodS,
                [batch |-> 1, seq |-> ColbertSeq(m)]>> :
                 m \in NearLens(n)}

\* ---------------------------------------------------------------- actions

Init ==
    /\ pc = "tokenize"
    /\ tokens = <<>>
    /\ token_indices = <<>>
    /\ input_ids = <<>>
    /\ attention_mask = <<>>
    /\ dense_embeddings = NoDense
    /\ sparse_weights = NoTensor
    /\ colbert_vectors = NoTensor
    /\ dense_vecs = <<>>
    /\ sparse_dict = EmptyDict
    /\ colbert_list = <<>>
    /\ result = <<>>
    /\ err = "none"
    /\ OneCall

\* Mutant of Raise: the failure is swallowed and what was computed so far is
\* returned.
RaisePartial(e) ==
    /\ pc' = "done"
    /\ err' = e
    /\ result' = <<[dense_vecs |-> dense_vecs]>>

\* An exception leaves encode: the locals are as they were at the raise.
Raise(e) ==
    /\ pc' = "raised"
    /\ err' = e
    /\ result' = <<>>

\* tokenizer_outputs = self.tokenizer_session.run(...);
\* tokens, _, token_indices = tokenizer_outputs
TokenizeFrom(outputs) ==
    /\ pc = "tokenize"
    /\ tokenizer_session.present
    /\ \E out \in outputs :
          /\ tokens' = out[1]
          /\ token_indices' = out[2]
    /\ pc' = "convert"
    /\ UNCHANGED <<input_ids, attention_mask, dense_embeddings, sparse_weights,
                   colbert_vectors, dense_vecs, sparse_dict, colbert_list,
                   result, err>>
    /\ EncodeSelf
    /\ UNCHANGED around

Tokenize == TokenizeFrom(TokenizerOutputs)

\* The tokenizer session raises.
TokenizeRaise ==
    /\ pc = "tokenize"
    /\ tokenizer_session.present
    /\ Raise("OrtError")
    /\ UNCHANGED <<tokens, token_indices, input_ids, attention_mask,
                   dense_embeddings, sparse_weights, colbert_vectors,
                   dense_vecs, sparse_dict, colbert_list>>
    /\ EncodeSelf
    /\ UNCHANGED around

\* input_ids, attention_mask = self._convert_tokenizer_outputs(tokens, token_indices)
Convert ==
    /\ pc = "convert"
    /\ input_ids' = OrderedTokens(tokens, token_indices)
    /\ attention_mask' = OnesLike(OrderedTokens(tokens, token_indices))
    /\ pc' = "model"
    /\ UNCHANGED <<tokens, token_indices, dense_embeddings, sparse_weights,
                   colbert_vectors, dense_vecs, sparse_dict, colbert_list,
                   result, err>>
    /\ EncodeSelf
    /\ UNCHANGED around

\* model_outputs = self.model_session.run(...);
\* dense_embeddings, sparse_weights, colbert_vectors = model_outputs
RunModelFrom(rows) ==
    /\ pc = "model"
    /\ model_session.present
    /\ \E r \in rows :
       \E out \in ModelOutputs(Len(input_ids), r) :
          /\ dense_embeddings' = out[1]
          /\ sparse_weights' = out[2]
          /\ colbert_vectors' = out[3]
    /\ pc' = "dense"
    /\ UNCHANGED <<tokens, token_indices, input_ids, attention_mask,
                   dense_vecs, sparse_dict, colbert_list, result, err>>
    /\ EncodeSelf
    /\ UNCHANGED around

RunModel == RunModelFrom(UNION SparseRowSets)

\* The model session raises.
RunModelRaise ==
    /\ pc = "model"
    /\ model_session.present
    /\ Raise("OrtError")
    /\ UNCHANGED <<tokens, token_indices, input_ids, attention_mask,
                   dense_embeddings, sparse_weights, colbert_vectors,
                   dense_vecs, sparse_dict, colbert_list>>
    /\ EncodeSelf
    /\ UNCHANGED around

\* dense_vecs = dense_embeddings[0].tolist()
ProcessDense ==
    /\ pc = "dense"
    /\ LET d == DenseVecs(dense_embeddings)
       IN  /\ dense_vecs' = d.value
           /\ IF d.err = "none"
              THEN pc' = "sparse" /\ UNCHANGED <<result, err>>
              ELSE Raise(d.err)
    /\ UNCHANGED <<tokens, token_indices, input_ids, attention_mask,
                   dense_embeddings, sparse_weights, colbert_vectors,
                   sparse_dict, colbert_list>>
    /\ EncodeSelf
    /\ UNCHANGED around

\* sparse_dict = {}; for i, token_id in enumerate(input_ids[0]): ...
ProcessSparse ==
    /\ pc = "sparse"
    /\ LET s == SparseDict(input_ids, attention_mask, sparse_weights)
       IN  /\ sparse_dict' = s.value
           /\ IF s.err = "none"
              THEN pc' = "colbert" /\ UNCHANGED <<result, err>>
              ELSE Raise(s.err)
    /\ UNCHANGED <<tokens, token_indices, input_ids, attention_mask,
                   dense_embeddings, sparse_weights, colbert_vectors,
                   dense_vecs, colbert_list>>
    /\ EncodeSelf
    /\ UNCHANGED around

\* colbert_list = []; for i in range(colbert_vectors.shape[1]): ...
ProcessColbert ==
    /\ pc = "colbert"
    /\ LET c == ColbertList(attention_mask, colbert_vectors)
       IN  /\ colbert_list' = c.value
           /\ IF c.err = "none"
              THEN pc' = "return" /\ UNCHANGED <<result, err>>
              ELSE Raise(c.err)
    /\ UNCHANGED <<tokens, token_indices, input_ids, attention_mask,
                   dense_embeddings, sparse_weights, colbert_vectors,
                   dense_vecs, sparse_dict>>
    /\ EncodeSelf
    /\ UNCHANGED around

\* return {"dense_vecs": ..., "lexical_weights": ..., "colbert_vecs": ...}
Return ==
    /\ pc = "return"
    /\ result' = <<EncodeResult(dense_vecs, sparse_dict, colbert_list)>>
    /\ pc' = "done"
    /\ UNCHANGED <<tokens, token_indices, input_ids, attention_mask,
                   dense_embeddings, sparse_weights, colbert_vectors,
                   dense_vecs, sparse_dict, colbert_list, err>>
    /\ EncodeSelf
    /\ UNCHANGED around

\* Lines 108-137 of encode: the processing of the three output tensors.
NextPost == ProcessDense \/ ProcessSparse \/ ProcessColbert \/ Return

Next == Tokenize \/ TokenizeRaise \/ Convert \/ RunModel \/ RunModelRaise \/ NextPost

\* One encode call, tokenizer and model included.
Spec == Init /\ [][Next]_vars

\* The post-processing alone, entered with any token ids, any 0/1 attention
\* mask of the same length, and output tensors of the model's contract
\* ([1, D], [1, N, H], [1, N, E]), the sparse one with any sample rows.
InitPost ==
    /\ pc = "dense"
    /\ tokens = <<>>
    /\ token_indices = <<>>
    /\ input_ids \in SeqsUpTo(TokenIds, MaxLen)
    /\ attention_mask \in SeqsOfLen({0, 1}, Len(input_ids))
    /\ dense_embeddings = [batch |-> 1, row |-> DenseRow]
    /\ \E R \in SparseRowSets :
       \E rows \in SeqsOfLen(R, Len(input_ids)) :
          sparse_weights = [batch |-> 1, seq |-> rows]
    /\ colbert_vectors = [batch |-> 1, seq |-> ColbertSeq(Len(input_ids))]
    /\ dense_vecs = <<>>
    /\ sparse_dict = EmptyDict
    /\ colbert_list = <<>>
    /\ result = <<>>
    /\ err = "none"
    /\ OneCall

SpecPost == InitPost /\ [][NextPost]_vars

\* _convert_tokenizer_outputs alone, applied to any parallel arrays.
InitConvert ==
    /\ pc = "convert"
    /\ \E out \in AnyTokenizerOutputs :
          /\ tokens = out[1]
          /\ token_indices = out[2]
    /\ input_ids = <<>>
    /\ attention_mask = <<>>
    /\ dense_embeddings = NoDense
    /\ sparse_weights = NoTensor
    /\ colbert_vectors = NoTensor
    /\ dense_vecs = <<>>
    /\ sparse_dict = EmptyDict
    /\ colbert_list = <<>>
    /\ result = <<>>
    /\ err = "none"
    /\ OneCall

SpecConvert == InitConvert /\ [][Convert]_vars

\* ------------------------------------------------- notions of the claims

\* The value of one decimal digit character.
DigitValue(c) ==
    CASE c = "0" -> 0 [] c = "1" -> 1 [] c = "2" -> 2 [] c = "3" -> 3
      [] c = "4" -> 4 [] c = "5" -> 5 [] c = "6" -> 6 [] c = "7" -> 7
      [] c = "8" -> 8 [] c = "9" -> 9

\* The number a string of decimal digits denotes.
RECURSIVE DecimalValue(_)
DecimalValue(k) ==
    IF Len(k) = 0 THEN 0
    ELSE 10 * DecimalValue(SubSeq(k, 1, Len(k) - 1)) + DigitValue(k[Len(k)])

\* k is the decimal string of the natural number t: digits only, no leading
\* zero, denoting t.
IsDecimalOf(k, t) ==
    /\ Len(k) >= 1
    /\ \A j \in 1..Len(k) :
          k[j] \in {"0", "1", "2", "3", "4", "5", "6", "7", "8", "9"}
    /\ Len(k) > 1 => k[1] # "0"
    /\ DecimalValue(k) = t

\* m is the maximum of the non-empty row.
IsMaxOf(m, row) ==
    /\ \E h \in 1..Len(row) : row[h] = m
    /\ \A h \in 1..Len(row) : row[h] <= m

\* The sum of a row.
RECURSIVE RowSum(_)
RowSum(row) == IF row = <<>> THEN 0 ELSE Head(row) + RowSum(Tail(row))

\* The sparse aggregation has run to its end.
SparseDone == pc \in {"colbert", "return", "done"}

\* The ColBERT extraction has run to its end.
ColbertDone == pc \in {"return", "done"}

\* The positions (1-based) the attention mask keeps.
MaskedPositions == {i \in 1..Len(attention_mask) : attention_mask[i] = 1}

\* The per-position weight: the maximum of the position's sparse row.
PositionWeight(i) == CHOOSE m \in Range(sparse_weights.seq[i]) :
                        IsMaxOf(m, sparse_weights.seq[i])

\* The positions that carry token id t with a positive weight under the mask.
WeightedPositions(t) ==
    {i \in MaskedPositions : input_ids[i] = t /\ PositionWeight(i) > 0}

\* C1: after the sparse aggregation every key of lexical_weights is the
\* decimal string of a token id that occurs in inputIds and is not a special
\* token, and every stored value is greater than 0; the returned
\* lexical_weights is that mapping.
C1_KeysAndValues ==
    /\ SparseDone =>
          \A k \in DOMAIN sparse_dict :
             /\ \E i \in 1..Len(input_ids) :
                   /\ IsDecimalOf(k, input_ids[i])
                   /\ input_ids[i] \notin {0, 1, 2, 3}
             /\ sparse_dict[k] > 0
    /\ pc = "done" => result[1].lexical_weights = sparse_dict

\* C1 witness: a call returned a non-empty mapping although a special token
\* with a positive weight and an ordinary token with a weight <= 0 were both
\* under the mask.
C1_Witness ==
    /\ pc = "done"
    /\ DOMAIN result[1].lexical_weights # {}
    /\ \E i \in MaskedPositions :
          input_ids[i] \in {0, 1, 2, 3} /\ PositionWeight(i) > 0
    /\ \E i \in MaskedPositions :
          input_ids[i] \notin {0, 1, 2, 3} /\ PositionWeight(i) <= 0

\* C2: for every non-special token id t with at least one masked position of
\* positive weight, lexical_weights holds the decimal string of t and maps it
\* to the maximum of those positions' weights (not their sum, not the last
\* one seen), whatever the order of the positions.
C2_MaxPerToken ==
    /\ SparseDone =>
          \A t \in Range(input_ids) \ {0, 1, 2, 3} :
             WeightedPositions(t) # {} =>
                \E k \in DOMAIN sparse_dict :
                   /\ IsDecimalOf(k, t)
                   /\ \E i \in WeightedPositions(t) :
                         sparse_dict[k] = PositionWeight(i)
                   /\ \A i \in WeightedPositions(t) :
                         PositionWeight(i) <= sparse_dict[k]
    /\ pc = "done" => result[1].lexical_weights = sparse_dict

\* C2 witness: a returned mapping for a token id that occurs at two masked
\* positions, the earlier one with the larger positive weight, so that the
\* maximum differs from the last weight seen and from the sum.
C2_Witness ==
    /\ pc = "done"
    /\ \E t \in Range(input_ids) \ {0, 1, 2, 3} :
       \E i, j \in WeightedPositions(t) :
          /\ i < j
          /\ PositionWeight(i) > PositionWeight(j)
          /\ \E k \in DOMAIN result[1].lexical_weights :
                /\ IsDecimalOf(k, t)
                /\ result[1].lexical_weights[k] = PositionWeight(i)

\* The masked position i is the only masked position of its token id.
OnlyPositionOfItsToken(i) ==
    {j \in MaskedPositions : input_ids[j] = input_ids[i]} = {i}

\* C3: the weight the aggregation uses for a position is the maximum over
\* the whole hidden dimension of the position's sparse row: for a non-special
\* token id with a single masked position, the stored weight is the maximum
\* of that row when the maximum is positive (hence not the first or last
\* element, the sum or the mean where these differ from the maximum), and
\* there is no entry when no element of the row is positive.
C3_MaxOverHidden ==
    SparseDone =>
       \A i \in MaskedPositions :
          (input_ids[i] \notin {0, 1, 2, 3} /\ OnlyPositionOfItsToken(i)) =>
             LET row == sparse_weights.seq[i]
             IN  IF \E h \in 1..Len(row) : row[h] > 0
                 THEN \E k \in DOMAIN sparse_dict :
                         /\ IsDecimalOf(k, input_ids[i])
                         /\ IsMaxOf(sparse_dict[k], row)
                 ELSE \A k \in DOMAIN sparse_dict :
                         ~IsDecimalOf(k, input_ids[i])

\* C3 witness: a returned weight taken from the middle of a row of three,
\* different from the row's first element, last element and sum.
C3_Witness ==
    /\ pc = "done"
    /\ \E i \in MaskedPositions :
          LET row == sparse_weights.seq[i]
          IN  /\ input_ids[i] \notin {0, 1, 2, 3}
              /\ OnlyPositionOfItsToken(i)
              /\ Len(row) = 3
              /\ \E k \in DOMAIN result[1].lexical_weights :
                    /\ IsDecimalOf(k, input_ids[i])
                    /\ result[1].lexical_weights[k] = row[2]
                    /\ row[2] # row[1]
                    /\ row[2] # row[3]
                    /\ row[2] # RowSum(row)
                    /\ row[2] * Len(row) # RowSum(row)

\* The number of masked positions before position i.
KeptBefore(i) == Cardinality({j \in MaskedPositions : j < i})

\* C4: colbert_vecs has one vector per masked position and the k-th vector
\* is the tensor row of the k-th masked position in ascending order.
C4_ColbertOrder ==
    /\ ColbertDone =>
          /\ Len(colbert_list) = Cardinality(MaskedPositions)
          /\ \A i \in MaskedPositions :
                colbert_list[KeptBefore(i) + 1] = colbert_vectors.seq[i]
    /\ pc = "done" => result[1].colbert_vecs = colbert_list

\* C4 witness: a returned list for a mask with a masked-out position between
\* two kept ones.
C4_Witness ==
    /\ pc = "done"
    /\ \E i, j, l \in 1..Len(attention_mask) :
          /\ i < j /\ j < l
          /\ attention_mask[i] = 1
          /\ attention_mask[j] = 0
          /\ attention_mask[l] = 1
    /\ Len(result[1].colbert_vecs) = Cardinality(MaskedPositions)
    /\ Len(result[1].colbert_vecs) < Len(attention_mask)

\* The position indices are a permutation of 0..N-1.
IsPermutation0(idx) == Range(idx) = 0..(Len(idx) - 1)

\* C5: when token_indices is a permutation of 0..N-1, input_ids has length N
\* and holds at position p the token that was paired with index p, so no
\* token is dropped or duplicated.
C5_ReorderByPosition ==
    (pc = "model" /\ IsPermutation0(token_indices)) =>
       /\ Len(input_ids) = Len(tokens)
       /\ \A k \in 1..Len(tokens) : input_ids[token_indices[k] + 1] = tokens[k]

\* C5 witness: three distinct tokens emitted out of positional order were
\* reordered.
C5_Witness ==
    /\ pc = "model"
    /\ token_indices = <<2, 0, 1>>
    /\ Cardinality(Range(tokens)) = 3
    /\ input_ids = <<tokens[2], tokens[3], tokens[1]>>

\* C6: when the position indices are not a permutation of 0..N-1, the
\* reordering fails with MalformedTokenization and yields no input_ids.
C6_MalformedRejected ==
    (pc # "convert" /\ ~IsPermutation0(token_indices)) =>
       /\ pc = "raised"
       /\ err = "MalformedTokenization"
       /\ input_ids = <<>>

\* The model session returned its three tensors.
ModelRan ==
    \/ pc \in {"dense", "sparse", "colbert", "return", "done"}
    \/ pc = "raised" /\ err # "OrtError"

\* The tensors' shapes against the contract [1, D], [1, N, H], [1, N, E].
DenseShapeOk == dense_embeddings.batch = 1 /\ dense_embeddings.row # <<>>
SparseShapeOk ==
    sparse_weights.batch = 1 /\ Len(sparse_weights.seq) = Len(input_ids)
ColbertShapeOk ==
    colbert_vectors.batch = 1 /\ Len(colbert_vectors.seq) = Len(input_ids)

\* encode failed: an exception reached the caller and nothing was returned.
\* The code defines no ShapeMismatch error, so any exception counts as one.
EncodeFailed == pc = "raised" /\ err # "none" /\ result = <<>>

\* C7: when the sparse tensor's batch size is not 1 or its position dimension
\* is not N, the sparse aggregation of a non-empty token sequence fails,
\* whatever the token ids are, and no lexical_weights is returned.
C7_SparseShapeRejected ==
    (ModelRan /\ Len(input_ids) > 0 /\ DenseShapeOk /\ ~SparseShapeOk
        /\ pc \notin {"dense", "sparse"})
       => EncodeFailed

\* C8: when the multi-vector tensor's batch size is not 1 or its position
\* dimension is not N, the extraction for a non-empty token sequence fails
\* instead of returning a list.
C8_ColbertShapeRejected ==
    (ModelRan /\ Len(input_ids) > 0 /\ DenseShapeOk /\ SparseShapeOk
        /\ ~ColbertShapeOk
        /\ pc \notin {"dense", "sparse", "colbert"})
       => EncodeFailed

\* C9: when the dense tensor's batch dimension is not 1 or its row is empty,
\* the dense extraction for a non-empty token sequence fails and no
\* dense_vecs is returned.
C9_DenseShapeRejected ==
    (ModelRan /\ Len(input_ids) > 0 /\ ~DenseShapeOk /\ pc # "dense")
       => EncodeFailed

\* C10: encode returns a record with all three parts or raises and returns
\* nothing: a result exists only once the call is done without an exception,
\* it then holds exactly dense_vecs, lexical_weights and colbert_vecs built
\* from the call's locals, a finished call without an exception has a
\* result, and a raised call has none.
C10_AllOrNothing ==
    /\ result # <<>> =>
          /\ pc = "done"
          /\ err = "none"
          /\ Len(result) = 1
          /\ DOMAIN result[1] = {"dense_vecs", "lexical_weights", "colbert_vecs"}
          /\ result[1].dense_vecs = dense_vecs
          /\ result[1].lexical_weights = sparse_dict
          /\ result[1].colbert_vecs = colbert_list
    /\ pc = "done" => result # <<>>
    /\ (pc = "raised") <=> (err # "none")
    /\ pc = "raised" => result = <<>>

\* C10 witness: the call raised after dense_vecs and part of the sparse
\* mapping had been computed, and nothing was returned.
C10_Witness ==
    /\ pc = "raised"
    /\ err = "IndexError"
    /\ dense_vecs # <<>>
    /\ DOMAIN sparse_dict # {}
    /\ result = <<>>

\* ------------------------------------------------ the dense extraction

\* Longest dense row of the dense extraction's own specification.
MaxDense == 3

\* Elements of its dense rows.
DenseValues == {-6, 0, 5}

\* The post-processing entered with any dense row of at most MaxDense
\* elements in a tensor of one batch row.
InitDense ==
    /\ pc = "dense"
    /\ tokens = <<>>
    /\ token_indices = <<>>
    /\ input_ids = <<2, 15>>
    /\ attention_mask = <<1, 1>>
    /\ \E row \in SeqsUpTo(DenseValues, MaxDense) :
          dense_embeddings = [batch |-> 1, row |-> row]
    /\ sparse_weights = [batch |-> 1, seq |-> <<<<2, 8>>, <<3, 1>>>>]
    /\ colbert_vectors = [batch |-> 1, seq |-> ColbertSeq(2)]
    /\ dense_vecs = <<>>
    /\ sparse_dict = EmptyDict
    /\ colbert_list = <<>>
    /\ result = <<>>
    /\ err = "none"
    /\ OneCall

SpecDense == InitDense /\ [][NextPost]_vars

\* The dense extraction has run.
DenseDone == pc \in {"sparse", "colbert", "return", "done"}

\* C11: for a dense tensor with one batch row of length D, dense_vecs has
\* length D and its k-th element is the row's k-th element, and the returned
\* dense_vecs is that list.
C11_DenseIsRow ==
    /\ DenseDone =>
          /\ Len(dense_vecs) = Len(dense_embeddings.row)
          /\ \A k \in 1..Len(dense_embeddings.row) :
                dense_vecs[k] = dense_embeddings.row[k]
    /\ pc = "done" =>
          /\ Len(result[1].dense_vecs) = Len(dense_embeddings.row)
          /\ \A k \in 1..Len(dense_embeddings.row) :
                result[1].dense_vecs[k] = dense_embeddings.row[k]

\* C11 witness: a returned dense vector of three elements that are neither
\* sorted nor of unit norm.
C11_Witness ==
    /\ pc = "done"
    /\ dense_embeddings.row = <<5, -6, 0>>
    /\ result[1].dense_vecs = <<5, -6, 0>>

\* The ways to number n entries.
Orderings(n) == {f \in SeqsOfLen(1..n, n) : Range(f) = 1..n}

\* C12: the input builder returns the N tokenizer tokens in the order of
\* their position indices, none dropped, added or repeated, and an attention
\* mask of the same length whose entries are all 1.
C12_InputBuilder ==
    pc = "model" =>
       /\ Len(input_ids) = Len(tokens)
       /\ \E f \in Orderings(Len(tokens)) :
             /\ \A p \in 1..Len(tokens) : input_ids[p] = tokens[f[p]]
             /\ \A p, q \in 1..Len(tokens) :
                   p < q => token_indices[f[p]] <= token_indices[f[q]]
       /\ Len(attention_mask) = Len(input_ids)
       /\ \A k \in 1..Len(attention_mask) : attention_mask[k] = 1

\* C12 witness: three tokens were built into input_ids and a mask of three
\* ones.
C12_Witness ==
    /\ pc = "model"
    /\ Len(tokens) = 3
    /\ Len(input_ids) = 3
    /\ attention_mask = <<1, 1, 1>>

\* The positions the attention mask leaves out.
MaskedOutPositions == {i \in 1..Len(attention_mask) : attention_mask[i] = 0}

\* C13: a position with attentionMask = 0 contributes nothing: every entry
\* of lexical_weights is the weight of a masked position of its token id, a
\* token id without a weighted masked position has no entry, and every
\* vector of colbert_vecs is the row of a masked position.
C13_MaskAuthoritative ==
    /\ SparseDone =>
          /\ \A k \in DOMAIN sparse_dict :
                \E i \in MaskedPositions :
                   /\ IsDecimalOf(k, input_ids[i])
                   /\ sparse_dict[k] = PositionWeight(i)
          /\ \A j \in MaskedOutPositions :
                WeightedPositions(input_ids[j]) = {} =>
                   \A k \in DOMAIN sparse_dict : ~IsDecimalOf(k, input_ids[j])
    /\ ColbertDone =>
          /\ Len(colbert_list) = Len(attention_mask) - Cardinality(MaskedOutPositions)
          /\ \A n \in 1..Len(colbert_list) :
                \E i \in MaskedPositions : colbert_list[n] = colbert_vectors.seq[i]

\* C13 witness: a call returned although a masked-out position carried an
\* ordinary token id with a positive weight; the id has no entry and the
\* position no vector.
C13_Witness ==
    /\ pc = "done"
    /\ \E j \in MaskedOutPositions :
          /\ input_ids[j] \notin {0, 1, 2, 3}
          /\ PositionWeight(j) > 0
          /\ \A k \in DOMAIN result[1].lexical_weights :
                ~IsDecimalOf(k, input_ids[j])
          /\ \A n \in 1..Len(result[1].colbert_vecs) :
                result[1].colbert_vecs[n] # colbert_vectors.seq[j]
    /\ MaskedPositions # {}

\* C14: a masked position whose token id is special contributes its vector
\* to colbert_vecs, in its place among the masked positions, and no key to
\* lexical_weights.
C14_SpecialOnlyInSparse ==
    ColbertDone =>
       \A i \in MaskedPositions :
          input_ids[i] \in {0, 1, 2, 3} =>
             /\ colbert_list[KeptBefore(i) + 1] = colbert_vectors.seq[i]
             /\ \A k \in DOMAIN sparse_dict : ~IsDecimalOf(k, input_ids[i])

\* C14 witness: a returned result with the vector of a special token that
\* had a positive weight, and with an entry for an ordinary token.
C14_Witness ==
    /\ pc = "done"
    /\ \E i \in MaskedPositions :
          /\ input_ids[i] \in {0, 1, 2, 3}
          /\ PositionWeight(i) > 0
          /\ result[1].colbert_vecs[KeptBefore(i) + 1] = colbert_vectors.seq[i]
    /\ DOMAIN result[1].lexical_weights # {}

\* C18: for a zero-length token sequence a call that returns returns the
\* empty mapping and the empty list, and no intermediate mapping or list
\* holds an entry; the call fails only when a session raised or a tensor
\* broke the contract's shape, never because the input is empty.
C18_EmptyInput ==
    (ModelRan /\ Len(input_ids) = 0) =>
       /\ sparse_dict = EmptyDict
       /\ colbert_list = <<>>
       /\ pc = "done" =>
             /\ result[1].lexical_weights = EmptyDict
             /\ result[1].colbert_vecs = <<>>
       /\ (DenseShapeOk /\ SparseShapeOk /\ ColbertShapeOk) => pc # "raised"

\* C18 witness: a call on a zero-length token sequence returned.
C18_Witness ==
    /\ pc = "done"
    /\ tokens = <<>>
    /\ Len(input_ids) = 0
    /\ result[1].lexical_weights = EmptyDict
    /\ result[1].colbert_vecs = <<>>

\* ------------------------------------------------------------ dict keys

\* Token ids of the key specification: one to three digits, ids that share
\* their last digit, their digits in another order, or a prefix.
KeyIds == (4..25) \cup {100, 105, 150, 501, 510}

\* The post-processing entered with two positions under the mask, each with
\* a positive weight.
InitKeys ==
    /\ pc = "dense"
    /\ tokens = <<>>
    /\ token_indices = <<>>
    /\ input_ids \in SeqsOfLen(KeyIds, 2)
    /\ attention_mask = <<1, 1>>
    /\ dense_embeddings = [batch |-> 1, row |-> DenseRow]
    /\ sparse_weights = [batch |-> 1, seq |-> <<<<2, 8>>, <<3, 1>>>>]
    /\ colbert_vectors = [batch |-> 1, seq |-> ColbertSeq(2)]
    /\ dense_vecs = <<>>
    /\ sparse_dict = EmptyDict
    /\ colbert_list = <<>>
    /\ result = <<>>
    /\ err = "none"
    /\ OneCall

SpecKeys == InitKeys /\ [][NextPost]_vars

\* The keys of the mapping that are the decimal string of token id t.
KeysOf(t) == {k \in DOMAIN sparse_dict : IsDecimalOf(k, t)}

\* C19: every key is the decimal string of a token id; every token id with
\* a weighted position has exactly one key, and two weighted positions have
\* the same key exactly when their token ids are equal.
C19_KeyIdentity ==
    SparseDone =>
       /\ \A k \in DOMAIN sparse_dict :
             \E i \in 1..Len(input_ids) : IsDecimalOf(k, input_ids[i])
       /\ \A i \in 1..Len(input_ids) :
             WeightedPositions(input_ids[i]) # {} =>
                Cardinality(KeysOf(input_ids[i])) = 1
       /\ \A i, j \in 1..Len(input_ids) :
             (WeightedPositions(input_ids[i]) # {}
                /\ WeightedPositions(input_ids[j]) # {}) =>
                (KeysOf(input_ids[i]) = KeysOf(input_ids[j])
                   <=> input_ids[i] = input_ids[j])
       /\ Cardinality(DOMAIN sparse_dict)
             = Cardinality({t \in Range(input_ids) : WeightedPositions(t) # {}})

\* C19 witness: a returned mapping with two keys for two ids that end in the
\* same digit and one of which is a prefix of the other.
C19_Witness ==
    /\ pc = "done"
    /\ input_ids = <<10, 100>>
    /\ DOMAIN result[1].lexical_weights = {<<"1", "0">>, <<"1", "0", "0">>}

\* ------------------------------------------------ the embedder's life

\* encode calls one embedder is followed through.
MaxCalls == 2

\* Tokenizer outputs and sparse rows of the calls of one embedder's life.
LifeTokenizerOutputs == {<<<<15>>, <<0>>>>, <<<<2, 501>>, <<1, 0>>>>}
LifeRows == {<<2, 8>>, <<-1, 0>>}

\* The embedder as create_cpu_embedder or create_cuda_embedder returns it;
\* no call was made and no with-statement entered.
InitLife ==
    /\ \/ create_cpu_embedder
       \/ \E d \in {0, 1} : create_cuda_embedder(d)
    /\ pc = "idle"
    /\ tokens = <<>>
    /\ token_indices = <<>>
    /\ input_ids = <<>>
    /\ attention_mask = <<>>
    /\ dense_embeddings = NoDense
    /\ sparse_weights = NoTensor
    /\ colbert_vectors = NoTensor
    /\ dense_vecs = <<>>
    /\ sparse_dict = EmptyDict
    /\ colbert_list = <<>>
    /\ result = <<>>
    /\ err = "none"
    /\ calls = 0
    /\ with_state = "none"
    /\ with_target = "none"
    /\ with_err = "none"
    /\ last = <<>>
    /\ other = NoFrame
    /\ NoScripts

\* embedder.encode(text): a new frame; the caller keeps what the previous
\* call gave it.
CallEncode ==
    /\ pc = "idle"
    /\ calls < MaxCalls
    /\ calls' = calls + 1
    /\ last' = (IF calls = 0 THEN <<>> ELSE <<[result |-> result, err |-> err]>>)
    /\ pc' = "tokenize"
    /\ tokens' = <<>>
    /\ token_indices' = <<>>
    /\ input_ids' = <<>>
    /\ attention_mask' = <<>>
    /\ dense_embeddings' = NoDense
    /\ sparse_weights' = NoTensor
    /\ colbert_vectors' = NoTensor
    /\ dense_vecs' = <<>>
    /\ sparse_dict' = EmptyDict
    /\ colbert_list' = <<>>
    /\ result' = <<>>
    /\ err' = "none"
    /\ UNCHANGED <<embedder, with_state, with_target, with_err, other, scripts>>

\* The caller has the returned dict, or has caught the exception.
ReturnToCaller ==
    /\ pc \in {"done", "raised"}
    /\ pc' = "idle"
    /\ UNCHANGED <<tokens, token_indices, input_ids, attention_mask,
                   dense_embeddings, sparse_weights, colbert_vectors,
                   dense_vecs, sparse_dict, colbert_list, result, err>>
    /\ UNCHANGED <<embedder, around>>

\* self.tokenizer_session after close(): the attribute does not exist.
TokenizeClosed ==
    /\ pc = "tokenize"
    /\ ~tokenizer_session.present
    /\ Raise("AttributeError")
    /\ UNCHANGED <<tokens, token_indices, input_ids, attention_mask,
                   dense_embeddings, sparse_weights, colbert_vectors,
                   dense_vecs, sparse_dict, colbert_list>>
    /\ EncodeSelf
    /\ UNCHANGED around

TokenizeLife == TokenizeFrom(LifeTokenizerOutputs)

RunModelLife == RunModelFrom(LifeRows)

\* close() calls one embedder is followed through.
MaxCloses == 2

\* Mutant of DelIfPresent: closing a closed embedder opens a session again.
DelOrReopen(session) ==
    IF session.present THEN NoSession
    ELSE Session(<<"CPUExecutionProvider">>)

\* if hasattr(self, name): del self.<name>
DelIfPresent(session) == IF session.present THEN NoSession ELSE session

\* The body of close().
CloseBody ==
    /\ tokenizer_session' = DelIfPresent(tokenizer_session)
    /\ model_session' = DelIfPresent(model_session)
    /\ UNCHANGED <<special_token_ids, provider, device_id>>

\* embedder.close(), called by the code around the embedder.
Close ==
    /\ pc = "idle"
    /\ closes < MaxCloses
    /\ closes' = closes + 1
    /\ CloseBody
    /\ UNCHANGED <<pc, tokens, token_indices, input_ids, attention_mask,
                   dense_embeddings, sparse_weights, colbert_vectors,
                   dense_vecs, sparse_dict, colbert_list, result, err>>
    /\ UNCHANGED <<calls, with_state, with_target, with_err, last, other,
                   provider_arg, info, bench, gen>>

\* The dict get_provider_info returns.
ProviderInfo ==
    [tokenizer_provider |-> tokenizer_session.active[1],
     model_provider |-> model_session.active[1],
     requested_provider |-> provider]

\* embedder.get_provider_info()
GetProviderInfo ==
    /\ pc = "idle"
    /\ tokenizer_session.present
    /\ model_session.present
    /\ info' = [value |-> <<ProviderInfo>>, err |-> "none"]
    /\ UNCHANGED <<pc, tokens, token_indices, input_ids, attention_mask,
                   dense_embeddings, sparse_weights, colbert_vectors,
                   dense_vecs, sparse_dict, colbert_list, result, err>>
    /\ UNCHANGED <<embedder, calls, with_state, with_target, with_err, last,
                   other, provider_arg, closes, bench, gen>>

\* embedder.get_provider_info() after close(): self.tokenizer_session does
\* not exist.
GetProviderInfoClosed ==
    /\ pc = "idle"
    /\ ~tokenizer_session.present
    /\ info' = [value |-> <<>>, err |-> "AttributeError"]
    /\ UNCHANGED <<pc, tokens, token_indices, input_ids, attention_mask,
                   dense_embeddings, sparse_weights, colbert_vectors,
                   dense_vecs, sparse_dict, colbert_list, result, err>>
    /\ UNCHANGED <<embedder, calls, with_state, with_target, with_err, last,
                   other, provider_arg, closes, bench, gen>>

\* __enter__ returns self.
Enter == "self"

\* with create_..._embedder(...) as onnx_embedder:
WithEnter ==
    /\ pc = "idle"
    /\ with_state = "none"
    /\ with_state' = "entered"
    /\ with_target' = Enter
    /\ UNCHANGED <<pc, tokens, token_indices, input_ids, attention_mask,
                   dense_embeddings, sparse_weights, colbert_vectors,
                   dense_vecs, sparse_dict, colbert_list, result, err>>
    /\ UNCHANGED <<embedder, calls, with_err, last, other, scripts>>

\* The parameters of def __exit__(self) after self.
ExitParams == 0

\* The arguments the interpreter passes to __exit__ after the context
\* manager: exc_type, exc_value, traceback.
ExitArgs == 3

\* __exit__ called with nargs arguments after self: a call that does not
\* match the signature raises TypeError before the body runs.
ExitCall(nargs) ==
    IF nargs = ExitParams
    THEN /\ CloseBody
         /\ with_err' = "none"
    ELSE /\ with_err' = "TypeError"
         /\ UNCHANGED embedder

\* The with-block ends, normally (the caller is between calls) or through
\* the exception of an encode call.
WithExit ==
    /\ with_state = "entered"
    /\ pc \in {"idle", "raised"}
    /\ ExitCall(ExitArgs)
    /\ with_state' = "exited"
    /\ pc' = "idle"
    /\ UNCHANGED <<tokens, token_indices, input_ids, attention_mask,
                   dense_embeddings, sparse_weights, colbert_vectors,
                   dense_vecs, sparse_dict, colbert_list, result, err>>
    /\ UNCHANGED <<calls, with_target, last, other, scripts>>

NextLife ==
    \/ CallEncode
    \/ TokenizeLife
    \/ TokenizeRaise
    \/ TokenizeClosed
    \/ Convert
    \/ RunModelLife
    \/ RunModelRaise
    \/ NextPost
    \/ ReturnToCaller
    \/ Close
    \/ GetProviderInfo
    \/ GetProviderInfoClosed
    \/ WithEnter
    \/ WithExit

\* One embedder from its construction on: encode calls, close() and a
\* with-statement around them.
SpecLife == InitLife /\ [][NextLife]_vars

\* ------------------- what a call returns, stated from its own tensors

\* The maximum of a non-empty row.
RowMax(row) == CHOOSE m \in Range(row) : IsMaxOf(m, row)

\* The positions a mask keeps.
MaskedOf(mask) == {i \in 1..Len(mask) : mask[i] = 1}

\* lw holds, for the non-special token ids with a positive weight under the
\* mask, the decimal string of the id with the largest of its weights, and
\* nothing else.
ExpectedWeights(lw, ids, mask, sw) ==
    /\ \A k \in DOMAIN lw :
          \E i \in MaskedOf(mask) :
             /\ ids[i] \notin {0, 1, 2, 3}
             /\ IsDecimalOf(k, ids[i])
             /\ lw[k] > 0
             /\ lw[k] = RowMax(sw.seq[i])
             /\ \A j \in MaskedOf(mask) :
                   ids[j] = ids[i] => RowMax(sw.seq[j]) <= lw[k]
    /\ \A i \in MaskedOf(mask) :
          (ids[i] \notin {0, 1, 2, 3} /\ RowMax(sw.seq[i]) > 0) =>
             \E k \in DOMAIN lw : IsDecimalOf(k, ids[i])

\* cl holds the rows of the positions the mask keeps, in position order.
ExpectedVectors(cl, mask, cv) ==
    /\ Len(cl) = Cardinality(MaskedOf(mask))
    /\ \A i \in MaskedOf(mask) :
          cl[Cardinality({j \in MaskedOf(mask) : j < i}) + 1] = cv.seq[i]

\* res is what the contract gives for these inputs and these tensors.
ResultOf(res, ids, mask, de, sw, cv) ==
    /\ res.dense_vecs = de.row
    /\ ExpectedWeights(res.lexical_weights, ids, mask, sw)
    /\ ExpectedVectors(res.colbert_vecs, mask, cv)

\* The call that is in progress returned what its own tokenizer and model
\* outputs determine.
ThisCallsResult ==
    (pc = "done" /\ DenseShapeOk /\ SparseShapeOk /\ ColbertShapeOk) =>
       ResultOf(result[1], input_ids, attention_mask, dense_embeddings,
                sparse_weights, colbert_vectors)

\* C16: no step of an embedder's encode calls, returning or raising, changes
\* special_token_ids, provider or device_id, and a call that returns after
\* any earlier calls returns what its own tokenizer and model outputs
\* determine.
C16_NoStateBetweenCalls ==
    [][/\ special_token_ids' = special_token_ids
       /\ provider' = provider
       /\ device_id' = device_id
       /\ ThisCallsResult']_vars

\* C16 witness: a second call returned a non-empty mapping after a first
\* call that returned another result and the attributes are those of the
\* constructor.
C16_Witness ==
    /\ pc = "done"
    /\ calls = 2
    /\ Len(last) = 1
    /\ Len(last[1].result) = 1
    /\ last[1].result[1] # result[1]
    /\ DOMAIN result[1].lexical_weights # {}
    /\ special_token_ids = {0, 1, 2, 3}
    /\ provider = Cuda
    /\ device_id = 1

\* C20: when the with-statement has ended, close() has run (both sessions
\* are gone) and the statement raised no error of its own.
C20_WithStatement ==
    with_state = "exited" =>
       /\ with_err = "none"
       /\ ~tokenizer_session.present
       /\ ~model_session.present

\* ------------------------------------------ two concurrent encode calls

\* Inputs of concurrent calls: token ids with a mask, and two sets of model
\* output tensors for them.
ConcInputs ==
    {[input_ids |-> x[1], attention_mask |-> x[2], dense_embeddings |-> t[1],
      sparse_weights |-> [batch |-> 1, seq |-> SubSeq(t[2], 1, Len(x[1]))],
      colbert_vectors |-> [batch |-> 1, seq |-> SubSeq(t[3], 1, Len(x[1]))]] :
        x \in {<<<<15, 501>>, <<1, 1>>>>,
               <<<<501, 2>>, <<1, 1>>>>,
               <<<<7>>, <<1>>>>},
        t \in {<<[batch |-> 1, row |-> DenseRow],
                 <<<<2, 8>>, <<3, 1>>>>, ColbertSeq(2)>>,
               <<[batch |-> 1, row |-> <<1, 2, 3>>],
                 <<<<4, -1>>, <<6, 5>>>>, <<<<7, 7>>, <<9, 9>>>>>>}}

\* The frame of a call that is about to process the model outputs c.
FrameAt(c) ==
    [pc |-> "dense",
     input_ids |-> c.input_ids,
     attention_mask |-> c.attention_mask,
     dense_embeddings |-> c.dense_embeddings,
     sparse_weights |-> c.sparse_weights,
     colbert_vectors |-> c.colbert_vectors,
     dense_vecs |-> <<>>,
     sparse_dict |-> EmptyDict,
     colbert_list |-> <<>>,
     result |-> <<>>,
     err |-> "none"]

\* Two callers of one embedder, each with the outputs the tokenizer and the
\* model gave for its own input, about to post-process them.
InitConc ==
    /\ create_cpu_embedder
    /\ calls = 2
    /\ with_state = "none"
    /\ with_target = "none"
    /\ with_err = "none"
    /\ last = <<>>
    /\ NoScripts
    /\ tokens = <<>>
    /\ token_indices = <<>>
    /\ \E a \in ConcInputs :
          /\ pc = "dense"
          /\ input_ids = a.input_ids
          /\ attention_mask = a.attention_mask
          /\ dense_embeddings = a.dense_embeddings
          /\ sparse_weights = a.sparse_weights
          /\ colbert_vectors = a.colbert_vectors
    /\ dense_vecs = <<>>
    /\ sparse_dict = EmptyDict
    /\ colbert_list = <<>>
    /\ result = <<>>
    /\ err = "none"
    /\ \E b \in ConcInputs : other = FrameAt(b)

\* The second caller's frame after an exception left its encode.
OtherRaised(e) == [other EXCEPT !.pc = "raised", !.err = e]

\* The steps of the second caller leave the first caller's frame alone.
OtherFrame ==
    /\ UNCHANGED <<pc, tokens, token_indices, input_ids, attention_mask,
                   dense_embeddings, sparse_weights, colbert_vectors,
                   dense_vecs, sparse_dict, colbert_list, result, err>>
    /\ EncodeSelf
    /\ UNCHANGED <<calls, with_state, with_target, with_err, last, scripts>>

\* dense_vecs = dense_embeddings[0].tolist(), in the second caller
OtherDense ==
    /\ other.pc = "dense"
    /\ LET d == DenseVecs(other.dense_embeddings)
       IN  other' = IF d.err = "none"
                    THEN [other EXCEPT !.dense_vecs = d.value, !.pc = "sparse"]
                    ELSE OtherRaised(d.err)
    /\ OtherFrame

\* Mutant of OtherSparseDict: the loop fills the dict of the first caller,
\* as if the dict were kept in the embedder.
OtherSparseDictShared ==
    SparseLoop(other.input_ids, other.attention_mask, other.sparse_weights,
               1, sparse_dict)

\* sparse_dict = {} and its loop, in the second caller
OtherSparseDict ==
    SparseDict(other.input_ids, other.attention_mask, other.sparse_weights)

OtherSparse ==
    /\ other.pc = "sparse"
    /\ LET s == OtherSparseDict
       IN  other' = IF s.err = "none"
                    THEN [other EXCEPT !.sparse_dict = s.value, !.pc = "colbert"]
                    ELSE OtherRaised(s.err)
    /\ OtherFrame

\* colbert_list = [] and its loop, in the second caller
OtherColbert ==
    /\ other.pc = "colbert"
    /\ LET c == ColbertList(other.attention_mask, other.colbert_vectors)
       IN  other' = IF c.err = "none"
                    THEN [other EXCEPT !.colbert_list = c.value, !.pc = "return"]
                    ELSE OtherRaised(c.err)
    /\ OtherFrame

\* return {...}, in the second caller
OtherReturn ==
    /\ other.pc = "return"
    /\ other' = [other EXCEPT
                    !.result = <<EncodeResult(other.dense_vecs,
                                              other.sparse_dict,
                                              other.colbert_list)>>,
                    !.pc = "done"]
    /\ OtherFrame

NextConc ==
    \/ NextPost
    \/ OtherDense
    \/ OtherSparse
    \/ OtherColbert
    \/ OtherReturn

\* The post-processing steps of two encode calls on one embedder, in any
\* interleaving.
SpecConc == InitConc /\ [][NextConc]_vars

\* C17: in every interleaving of two callers' post-processing steps neither
\* call fails and each caller that has returned holds what its own inputs
\* and tensors determine, whatever the other caller has done so far.
C17_ConcurrentCallers ==
    /\ pc # "raised"
    /\ other.pc # "raised"
    /\ pc = "done" =>
          ResultOf(result[1], input_ids, attention_mask, dense_embeddings,
                   sparse_weights, colbert_vectors)
    /\ other.pc = "done" =>
          ResultOf(other.result[1], other.input_ids, other.attention_mask,
                   other.dense_embeddings, other.sparse_weights,
                   other.colbert_vectors)

\* C17 witness: both callers returned, with different mappings from
\* different token ids and tensors, the second caller having aggregated its
\* weights after the first.
C17_Witness ==
    /\ pc = "done"
    /\ other.pc = "done"
    /\ input_ids = <<15, 501>>
    /\ other.input_ids = <<7>>
    /\ sparse_weights # other.sparse_weights
    /\ DOMAIN result[1].lexical_weights = {<<"1", "5">>, <<"5", "0", "1">>}
    /\ DOMAIN other.result[1].lexical_weights = {<<"7">>}
    /\ result[1].colbert_vecs # other.result[1].colbert_vecs

\* ------------------------------------------------- execution providers

\* Provider arguments: "cuda" and "cpu" in several spellings, and strings
\* that are neither.
ProviderStrings ==
    {Cuda, Cpu, <<>>,
     <<"C", "U", "D", "A">>, <<"C", "u", "d", "a">>, <<"c", "U", "d", "A">>,
     <<"C", "P", "U">>, <<"C", "p", "u">>,
     <<"g", "p", "u">>, <<"G", "P", "U">>,
     <<"c", "u", "d">>, <<"c", "u", "d", "a", "a">>, <<"a", "c", "u", "d">>,
     <<"c", "u", "d", "a", " ">>}

\* An embedder constructed with any provider argument and device id; no
\* call was made.
InitProviders ==
    /\ \E p \in ProviderStrings : \E d \in {0, 1} : Construct(p, d)
    /\ pc = "idle"
    /\ tokens = <<>>
    /\ token_indices = <<>>
    /\ input_ids = <<>>
    /\ attention_mask = <<>>
    /\ dense_embeddings = NoDense
    /\ sparse_weights = NoTensor
    /\ colbert_vectors = NoTensor
    /\ dense_vecs = <<>>
    /\ sparse_dict = EmptyDict
    /\ colbert_list = <<>>
    /\ result = <<>>
    /\ err = "none"
    /\ calls = 0
    /\ with_state = "none"
    /\ with_target = "none"
    /\ with_err = "none"
    /\ last = <<>>
    /\ other = NoFrame
    /\ NoScripts

NextProviders == GetProviderInfo \/ GetProviderInfoClosed \/ Close

\* The constructor with any provider argument, get_provider_info and close.
SpecProviders == InitProviders /\ [][NextProviders]_vars

\* The upper-case and lower-case forms of the letters of the provider
\* strings.
CasePairs ==
    {<<"A", "a">>, <<"C", "c">>, <<"D", "d">>, <<"G", "g">>, <<"P", "p">>,
     <<"U", "u">>}

\* Two characters are equal up to letter case.
SameLetter(a, b) == a = b \/ <<a, b>> \in CasePairs \/ <<b, a>> \in CasePairs

\* Two strings are equal ignoring letter case.
EqualIgnoringCase(a, b) ==
    /\ Len(a) = Len(b)
    /\ \A k \in 1..Len(a) : SameLetter(a[k], b[k])

\* low is str with every upper-case letter replaced by its lower-case form.
IsLowerCased(low, str) ==
    /\ Len(low) = Len(str)
    /\ \A k \in 1..Len(str) :
          /\ SameLetter(low[k], str[k])
          /\ low[k] \notin {q[1] : q \in CasePairs}

\* C23: the model session's provider list is CUDA then CPU exactly when the
\* provider argument is "cuda" up to letter case and the CPU provider alone
\* otherwise; the tokenizer session has the CPU provider alone; and
\* get_provider_info reports the provider argument in lower case.
C23_ProviderList ==
    /\ model_session.present =>
          /\ model_session.providers
                = <<"CUDAExecutionProvider", "CPUExecutionProvider">>
             <=> EqualIgnoringCase(provider_arg, <<"c", "u", "d", "a">>)
          /\ ~EqualIgnoringCase(provider_arg, <<"c", "u", "d", "a">>) =>
                model_session.providers = <<"CPUExecutionProvider">>
    /\ tokenizer_session.present =>
          tokenizer_session.providers = <<"CPUExecutionProvider">>
    /\ info.value # <<>> =>
          IsLowerCased(info.value[1].requested_provider, provider_arg)

\* C23 witness: get_provider_info returned for an embedder constructed with
\* "cUdA", whose model session was given CUDA first and CPU second.
C23_Witness ==
    /\ provider_arg = <<"c", "U", "d", "A">>
    /\ model_session.present
    /\ model_session.providers
          = <<"CUDAExecutionProvider", "CPUExecutionProvider">>
    /\ info.value # <<>>
    /\ info.value[1].requested_provider = <<"c", "u", "d", "a">>

\* Both sessions are removed.
Closed == ~tokenizer_session.present /\ ~model_session.present

\* The encode call is past the tokenizer.
PastTokenizer ==
    pc \in {"convert", "model", "dense", "sparse", "colbert", "return", "done"}

\* C24: close() removes both sessions; once they are removed no step brings
\* one back or changes any attribute of the embedder, a further close()
\* included; and from then on no encode call gets past the tokenizer or
\* returns a result and no get_provider_info call returns a dict: each
\* raises.
C24_ClosePermanent ==
    /\ [](tokenizer_session.present = model_session.present)
    /\ [](closes > 0 => Closed)
    /\ [](Closed => ~PastTokenizer)
    /\ [][Closed =>
            /\ Closed'
            /\ embedder' = embedder
            /\ result' # result => result' = <<>>
            /\ pc' = "raised" => err' = "AttributeError"
            /\ info' # info =>
                  info' = [value |-> <<>>, err |-> "AttributeError"]]_vars

\* C24 witness: after two close() calls that followed a call that returned,
\* an encode call and a get_provider_info call have both raised.
C24_Witness ==
    /\ closes = 2
    /\ Closed
    /\ pc = "raised"
    /\ err = "AttributeError"
    /\ info = [value |-> <<>>, err |-> "AttributeError"]
    /\ Len(last) = 1
    /\ Len(last[1].result) = 1

\* --------------------------------------- independence of the extractors

\* Inputs of two calls that vary the token ids with the mask and each of
\* the three tensors on its own, all of one shape.
IndepInputs ==
    {[input_ids |-> x[1], attention_mask |-> x[2],
      dense_embeddings |-> [batch |-> 1, row |-> d],
      sparse_weights |-> [batch |-> 1, seq |-> w],
      colbert_vectors |-> [batch |-> 1, seq |-> c]] :
        x \in {<<<<15, 501>>, <<1, 1>>>>,
               <<<<501, 2>>, <<1, 1>>>>,
               <<<<15, 501>>, <<1, 0>>>>},
        d \in {DenseRow, <<1, 2, 3>>},
        w \in {<<<<2, 8>>, <<3, 1>>>>, <<<<-1, 0>>, <<3, 1>>>>},
        c \in {ColbertSeq(2), <<<<7, 7>>, <<9, 9>>>>}}

\* Two calls on one embedder, each about to process its own tensors.
InitIndep ==
    /\ create_cpu_embedder
    /\ calls = 2
    /\ with_state = "none"
    /\ with_target = "none"
    /\ with_err = "none"
    /\ last = <<>>
    /\ NoScripts
    /\ tokens = <<>>
    /\ token_indices = <<>>
    /\ \E a \in IndepInputs :
          /\ pc = "dense"
          /\ input_ids = a.input_ids
          /\ attention_mask = a.attention_mask
          /\ dense_embeddings = a.dense_embeddings
          /\ sparse_weights = a.sparse_weights
          /\ colbert_vectors = a.colbert_vectors
    /\ dense_vecs = <<>>
    /\ sparse_dict = EmptyDict
    /\ colbert_list = <<>>
    /\ result = <<>>
    /\ err = "none"
    /\ \E b \in IndepInputs : other = FrameAt(b)

SpecIndep == InitIndep /\ [][NextConc]_vars

\* C22: of two calls that have returned, those with the same dense tensor
\* have the same dense_vecs; those with the same inputIds, attentionMask and
\* sparse tensor have the same lexical_weights; those with the same
\* attentionMask and multi-vector tensor have the same colbert_vecs;
\* whatever the other tensors and, for dense_vecs and colbert_vecs, the token
\* ids are.
C22_Independent ==
    (pc = "done" /\ other.pc = "done") =>
       /\ dense_embeddings = other.dense_embeddings =>
             result[1].dense_vecs = other.result[1].dense_vecs
       /\ (/\ input_ids = other.input_ids
           /\ attention_mask = other.attention_mask
           /\ sparse_weights = other.sparse_weights) =>
             result[1].lexical_weights = other.result[1].lexical_weights
       /\ (/\ attention_mask = other.attention_mask
           /\ colbert_vectors = other.colbert_vectors) =>
             result[1].colbert_vecs = other.result[1].colbert_vecs

\* C22 witness: two calls returned that differ in the values of the sparse
\* tensor alone: their mappings differ, their dense_vecs and colbert_vecs
\* are the same.
C22_Witness ==
    /\ pc = "done"
    /\ other.pc = "done"
    /\ input_ids = other.input_ids
    /\ attention_mask = other.attention_mask
    /\ dense_embeddings = other.dense_embeddings
    /\ colbert_vectors = other.colbert_vectors
    /\ sparse_weights # other.sparse_weights
    /\ result[1].lexical_weights # other.result[1].lexical_weights
    /\ result[1].dense_vecs = other.result[1].dense_vecs
    /\ result[1].colbert_vecs = other.result[1].colbert_vecs
    /\ result[1].colbert_vecs # <<>>

\* ------------------------------- performance_test.py: BenchmarkRunner

\* Longest list of texts a benchmark is run on.
MaxTexts == 3

\* What encode_func does on a text: return a dict or raise.
Outcomes == {"ok", "raise"}

\* time.time() differences in seconds: per-text latencies, and the total
\* time, which the clock can report as zero.
Latencies == {1, 4}
TotalTimes == {0, 9}

\* A dict encode_func returns.
SampleResult ==
    EncodeResult(DenseRow, DictSet(EmptyDict, PyStr(15), 8), ColbertSeq(2))

\* processed_result = {"dense_size": len(...), "sparse_tokens": len(...),
\*                     "colbert_vectors": len(...)}
ProcessedResult(r) ==
    [dense_size |-> Len(r.dense_vecs),
     sparse_tokens |-> Cardinality(DOMAIN r.lexical_weights),
     colbert_vectors |-> Len(r.colbert_vecs)]

\* No embedder exists.
NotConstructed ==
    /\ provider_arg = <<>>
    /\ provider = <<>>
    /\ device_id = 0
    /\ special_token_ids = {}
    /\ tokenizer_session = NoSession
    /\ model_session = NoSession

\* benchmark_onnx_cpu(texts) or benchmark_onnx_cuda(texts) is called with
\* any list of up to MaxTexts texts and any encode outcome for the warm-up
\* text and for each text.
InitBench ==
    /\ NotConstructed
    /\ pc = "idle"
    /\ tokens = <<>>
    /\ token_indices = <<>>
    /\ input_ids = <<>>
    /\ attention_mask = <<>>
    /\ dense_embeddings = NoDense
    /\ sparse_weights = NoTensor
    /\ colbert_vectors = NoTensor
    /\ dense_vecs = <<>>
    /\ sparse_dict = EmptyDict
    /\ colbert_list = <<>>
    /\ result = <<>>
    /\ err = "none"
    /\ calls = 0
    /\ with_state = "none"
    /\ with_target = "none"
    /\ with_err = "none"
    /\ last = <<>>
    /\ other = NoFrame
    /\ info = NoInfo
    /\ closes = 0
    /\ gen = NoGen
    /\ \E m \in {"cpu", "cuda"} :
       \E w \in Outcomes :
       \E t \in SeqsUpTo(Outcomes, MaxTexts) :
          bench = [pc |-> "start", method |-> m, texts |-> t, warm |-> w,
                   i |-> 0, processed |-> <<>>, results |-> <<>>,
                   latencies |-> <<>>, report |-> <<>>, err |-> "none",
                   created |-> FALSE, ret |-> "none"]

\* The steps of a benchmark leave the encode frame and the other scripts
\* alone.
BenchFrame ==
    /\ UNCHANGED <<pc, tokens, token_indices, input_ids, attention_mask,
                   dense_embeddings, sparse_weights, colbert_vectors,
                   dense_vecs, sparse_dict, colbert_list, result, err>>
    /\ UNCHANGED <<calls, with_state, with_target, with_err, last, other,
                   gen>>

\* An exception leaves the method's body: benchmark_onnx_cuda catches it and
\* returns None, benchmark_onnx_cpu lets it pass to its caller.
BenchFail(e) ==
    IF bench.method = "cuda"
    THEN [bench EXCEPT !.pc = "returned", !.ret = "None", !.err = e]
    ELSE [bench EXCEPT !.pc = "raised", !.err = e]

\* __init__ with provider argument p and device id d, run as a step.
ConstructStep(p, d) ==
    /\ provider_arg' = p
    /\ provider' = PyLower(p)
    /\ device_id' = d
    /\ special_token_ids' = SpecialTokenIds
    /\ tokenizer_session' = Session(<<"CPUExecutionProvider">>)
    /\ model_session' \in Sessions(GetModelProviders(PyLower(p)))

\* embedder = create_cpu_embedder(...) / create_cuda_embedder(...)
BenchCreate ==
    /\ bench.pc = "start"
    /\ ConstructStep(IF bench.method = "cuda" THEN Cuda ELSE Cpu, 0)
    /\ bench' = [bench EXCEPT
                    !.pc = IF bench.method = "cuda" THEN "info" ELSE "warmup",
                    !.created = TRUE]
    /\ UNCHANGED <<info, closes>>
    /\ BenchFrame

\* The constructor raises: no embedder exists.
BenchCreateRaise ==
    /\ bench.pc = "start"
    /\ bench' = BenchFail("OrtError")
    /\ UNCHANGED <<embedder, provider_arg, info, closes>>
    /\ BenchFrame

\* "CUDA" in provider_info.get("model_provider", "")
HasCuda(name) == name = "CUDAExecutionProvider"

\* provider_info = embedder.get_provider_info(); if "CUDA" not in ...
BenchProviderInfo ==
    /\ bench.pc = "info"
    /\ info' = [value |-> <<ProviderInfo>>, err |-> "none"]
    /\ bench' = [bench EXCEPT
                    !.pc = IF HasCuda(ProviderInfo.model_provider)
                           THEN "warmup" ELSE "skip"]
    /\ UNCHANGED <<embedder, provider_arg, closes>>
    /\ BenchFrame

\* embedder.close(); return None
BenchSkip ==
    /\ bench.pc = "skip"
    /\ CloseBody
    /\ closes' = closes + 1
    /\ bench' = [bench EXCEPT !.pc = "returned", !.ret = "None"]
    /\ UNCHANGED <<provider_arg, info>>
    /\ BenchFrame

\* encode_func(warmup_text), outside any try of _run_benchmark_core
BenchWarmUp ==
    /\ bench.pc = "warmup"
    /\ bench' = IF bench.warm = "ok"
                THEN [bench EXCEPT !.pc = "loop"]
                ELSE BenchFail("EncodeError")
    /\ UNCHANGED <<embedder, provider_arg, info, closes>>
    /\ BenchFrame

\* Mutant of AfterFailure: nothing is recorded for a text that failed.
AfterFailureNothing(results) == results

\* except Exception: results.append(None); None is <<>>, a dict d is <<d>>
AfterFailure(results) == Append(results, <<>>)

\* One iteration of for i, text in enumerate(texts)
BenchText ==
    /\ bench.pc = "loop"
    /\ bench.i < Len(bench.texts)
    /\ \E l \in Latencies :
          bench' = [bench EXCEPT
             !.i = bench.i + 1,
             !.processed = Append(bench.processed, bench.i + 1),
             !.results =
                IF bench.texts[bench.i + 1] = "ok"
                THEN Append(bench.results, <<ProcessedResult(SampleResult)>>)
                ELSE AfterFailure(bench.results),
             !.latencies = Append(bench.latencies, l)]
    /\ UNCHANGED <<embedder, provider_arg, info, closes>>
    /\ BenchFrame

\* The smallest and the largest element of a non-empty sequence.
SeqMin(q) == CHOOSE m \in Range(q) : \A k \in 1..Len(q) : m <= q[k]
SeqMax(q) == CHOOSE m \in Range(q) : \A k \in 1..Len(q) : q[k] <= m

\* The dict _run_benchmark_core returns, without its float averages.
BenchReportDict(results, latencies) ==
    [min_latency_ms |-> SeqMin(latencies) * 1000,
     max_latency_ms |-> SeqMax(latencies) * 1000,
     successful_embeddings |->
        Cardinality({k \in 1..Len(results) : results[k] # <<>>}),
     failed_embeddings |->
        Cardinality({k \in 1..Len(results) : results[k] = <<>>}),
     per_text_latencies_ms |->
        [k \in 1..Len(latencies) |-> latencies[k] * 1000]]

\* After the loop: total_time and the returned dict.  The divisions by
\* len(latencies) and by total_time raise ZeroDivisionError on zero.
BenchReport ==
    /\ bench.pc = "loop"
    /\ bench.i = Len(bench.texts)
    /\ \E total_time \in TotalTimes :
          bench' = IF Len(bench.latencies) = 0 \/ total_time = 0
                   THEN BenchFail("ZeroDivisionError")
                   ELSE [bench EXCEPT
                           !.pc = "close",
                           !.report = <<BenchReportDict(bench.results,
                                                        bench.latencies)>>]
    /\ UNCHANGED <<embedder, provider_arg, info, closes>>
    /\ BenchFrame

\* embedder.close(); return result
BenchClose ==
    /\ bench.pc = "close"
    /\ CloseBody
    /\ closes' = closes + 1
    /\ bench' = [bench EXCEPT !.pc = "returned", !.ret = "report"]
    /\ UNCHANGED <<provider_arg, info>>
    /\ BenchFrame

NextBench ==
    \/ BenchCreate
    \/ BenchCreateRaise
    \/ BenchProviderInfo
    \/ BenchSkip
    \/ BenchWarmUp
    \/ BenchText
    \/ BenchReport
    \/ BenchClose

\* One call of benchmark_onnx_cpu or benchmark_onnx_cuda.
SpecBench == InitBench /\ [][NextBench]_vars

\* The number of texts on which encode_func raises.
RaisingTexts ==
    Cardinality({k \in 1..Len(bench.texts) : bench.texts[k] = "raise"})

\* C25: while the texts are processed they are taken once each in list
\* order, a raising text included; and a report that is returned for a
\* non-empty list counts as failed exactly the texts on which encode raised,
\* as successful the others, and has one latency per text.
C25_BenchmarkCore ==
    /\ bench.pc \in {"loop", "close"} =>
          /\ bench.processed = [k \in 1..bench.i |-> k]
          /\ Len(bench.results) = bench.i
          /\ Len(bench.latencies) = bench.i
    /\ bench.report # <<>> =>
          /\ Len(bench.texts) > 0
          /\ bench.processed = [k \in 1..Len(bench.texts) |-> k]
          /\ bench.report[1].failed_embeddings = RaisingTexts
          /\ bench.report[1].successful_embeddings
                + bench.report[1].failed_embeddings = Len(bench.texts)
          /\ Len(bench.report[1].per_text_latencies_ms) = Len(bench.texts)

\* C25 witness: a report was returned for three texts of which the first
\* and the last made encode raise.
C25_Witness ==
    /\ bench.pc = "returned"
    /\ bench.ret = "report"
    /\ bench.texts = <<"raise", "ok", "raise">>
    /\ bench.report[1].failed_embeddings = 2
    /\ bench.report[1].successful_embeddings = 1

\* The benchmark method has returned or raised.
BenchOver == bench.pc \in {"returned", "raised"}

\* C26: when benchmark_onnx_cpu or benchmark_onnx_cuda has returned or
\* raised, the embedder it created is closed.
C26_BenchmarkCloses ==
    (BenchOver /\ bench.created) => Closed

\* --------------------- performance_data/generate_dataset.py: the dataset

\* Largest target_size.
MaxTarget == 8

\* The slice of the dataset whose texts serve as templates: dataset[:50] in
\* the code, where the first category has 20 short texts (at most 40
\* records); scaled to the sample below, whose first category has one short
\* text (at most 2 records).
TemplateWindow == 3

\* SAMPLE_TEXTS and TECHNICAL_TEXTS, a text given by its number of words, one
\* sequence per category in the order of the dict: a category of short texts
\* first, then one of medium texts, then one of one-word texts.
SampleTexts == <<<<4>>, <<39>>, <<1>>>>
TechnicalTexts == <<<<5>>>>

\* Words a prefix and a suffix add to a text in generate_variations: none
\* (suffix "."), or five ("New: " and " - Limited time offer!").
ExtraWords == {0, 5}

\* generate_variations(text, 2) for a text of w words: the text alone when
\* the random variation equals it, else the text and the variation.
Variations(w) == {<<w>>} \cup {<<w, w + e>> : e \in ExtraWords}

\* for variation in variations: if len(dataset) >= target_size: break;
\* dataset.append({...})
RECURSIVE AppendWhileRoom(_, _, _, _)
AppendWhileRoom(dataset, variations, source, target_size) ==
    IF variations = <<>> \/ Len(dataset) >= target_size THEN dataset
    ELSE AppendWhileRoom(
            Append(dataset, [words |-> Head(variations), source |-> source]),
            Tail(variations), source, target_size)

\* len(words) > 5
MinTemplateWords == 5

\* Mutant of IsTemplate: only texts of more than fifty words are templates.
IsTemplateOverFifty(words) == words > 10 * MinTemplateWords

IsTemplate(words) == words > MinTemplateWords

\* random.randint(3, min(8, len(words)))
SubsetSizes(words) == 3..(IF words < 8 THEN words ELSE 8)

\* random.shuffle(dataset): the list as it is, reversed, or rotated by one.
Shuffles(dataset) ==
    LET n == Len(dataset)
    IN  {dataset, [k \in 1..n |-> dataset[n + 1 - k]],
         [k \in 1..n |-> dataset[(k % n) + 1]]}

\* generate_test_dataset(target_size) is called.
InitGen ==
    /\ create_cpu_embedder
    /\ pc = "idle"
    /\ tokens = <<>>
    /\ token_indices = <<>>
    /\ input_ids = <<>>
    /\ attention_mask = <<>>
    /\ dense_embeddings = NoDense
    /\ sparse_weights = NoTensor
    /\ colbert_vectors = NoTensor
    /\ dense_vecs = <<>>
    /\ sparse_dict = EmptyDict
    /\ colbert_list = <<>>
    /\ result = <<>>
    /\ err = "none"
    /\ calls = 0
    /\ with_state = "none"
    /\ with_target = "none"
    /\ with_err = "none"
    /\ last = <<>>
    /\ other = NoFrame
    /\ info = NoInfo
    /\ closes = 0
    /\ bench = NoBench
    /\ \E t \in 0..MaxTarget :
          gen = [pc |-> "predefined", target_size |-> t, dataset |-> <<>>,
                 cat |-> 1, txt |-> 1, base_texts |-> <<>>, k |-> 1,
                 returned |-> <<>>]

\* The steps of generate_test_dataset change nothing but its own frame.
GenFrame ==
    /\ UNCHANGED <<pc, tokens, token_indices, input_ids, attention_mask,
                   dense_embeddings, sparse_weights, colbert_vectors,
                   dense_vecs, sparse_dict, colbert_list, result, err>>
    /\ UNCHANGED <<embedder, calls, with_state, with_target, with_err, last,
                   other, provider_arg, info, closes, bench>>

\* One text of SAMPLE_TEXTS: its variations are appended while there is
\* room; after the last text of a category the outer loop breaks when the
\* dataset is full.
GenPredefined ==
    /\ gen.pc = "predefined"
    /\ \E v \in Variations(SampleTexts[gen.cat][gen.txt]) :
          LET d == AppendWhileRoom(gen.dataset, v, "predefined",
                                   gen.target_size)
              lastText == gen.txt = Len(SampleTexts[gen.cat])
              lastCat == gen.cat = Len(SampleTexts)
          IN  gen' = [gen EXCEPT
                 !.dataset = d,
                 !.txt = IF lastText THEN 1 ELSE gen.txt + 1,
                 !.cat = IF ~lastText THEN gen.cat
                         ELSE IF lastCat \/ Len(d) >= gen.target_size THEN 1
                         ELSE gen.cat + 1,
                 !.pc = IF lastText /\ (lastCat \/ Len(d) >= gen.target_size)
                        THEN "technical" ELSE "predefined"]
    /\ GenFrame

\* One text of TECHNICAL_TEXTS: skipped when the dataset is full, else its
\* variations are appended while there is room.
GenTechnical ==
    /\ gen.pc = "technical"
    /\ \E v \in Variations(TechnicalTexts[gen.cat][gen.txt]) :
          LET d == IF Len(gen.dataset) >= gen.target_size THEN gen.dataset
                   ELSE AppendWhileRoom(gen.dataset, v, "technical",
                                        gen.target_size)
              lastText == gen.txt = Len(TechnicalTexts[gen.cat])
              lastCat == gen.cat = Len(TechnicalTexts)
          IN  gen' = [gen EXCEPT
                 !.dataset = d,
                 !.txt = IF lastText THEN 1 ELSE gen.txt + 1,
                 !.cat = IF ~lastText THEN gen.cat
                         ELSE IF lastCat THEN 1 ELSE gen.cat + 1,
                 !.pc = IF lastText /\ lastCat
                        THEN "synthetic" ELSE "technical"]
    /\ GenFrame

\* while len(dataset) < target_size:
\*     base_texts = [item["text"] for item in dataset[:50]]
GenWindow ==
    /\ gen.pc = "synthetic"
    /\ Len(gen.dataset) < gen.target_size
    /\ LET n == IF Len(gen.dataset) < TemplateWindow
                THEN Len(gen.dataset) ELSE TemplateWindow
       IN  gen' = [gen EXCEPT
                     !.base_texts = [j \in 1..n |-> gen.dataset[j].words],
                     !.k = 1,
                     !.pc = "templates"]
    /\ GenFrame

\* One base text of for base_text in base_texts: break when the dataset is
\* full; a text of more than five words gives one synthetic record.
GenTemplate ==
    /\ gen.pc = "templates"
    /\ gen.k <= Len(gen.base_texts)
    /\ IF Len(gen.dataset) >= gen.target_size
       THEN gen' = [gen EXCEPT !.pc = "synthetic"]
       ELSE IF IsTemplate(gen.base_texts[gen.k])
       THEN \E subset_size \in SubsetSizes(gen.base_texts[gen.k]) :
               gen' = [gen EXCEPT
                         !.dataset = Append(gen.dataset,
                                            [words |-> subset_size + 3,
                                             source |-> "synthetic"]),
                         !.k = gen.k + 1]
       ELSE gen' = [gen EXCEPT !.k = gen.k + 1]
    /\ GenFrame

\* The for loop over base_texts is exhausted: back to the while test.
GenTemplatesDone ==
    /\ gen.pc = "templates"
    /\ gen.k > Len(gen.base_texts)
    /\ gen' = [gen EXCEPT !.pc = "synthetic"]
    /\ GenFrame

\* dataset = dataset[:target_size]; random.shuffle(dataset);
\* item["id"] = i; return dataset
GenReturn ==
    /\ gen.pc = "synthetic"
    /\ Len(gen.dataset) >= gen.target_size
    /\ \E shuffled \in Shuffles(SubSeq(gen.dataset, 1, gen.target_size)) :
          gen' = [gen EXCEPT
                    !.pc = "returned",
                    !.returned = <<[j \in 1..Len(shuffled) |->
                                      [words |-> shuffled[j].words,
                                       source |-> shuffled[j].source,
                                       id |-> j - 1]]>>]
    /\ GenFrame

NextGen ==
    \/ GenPredefined
    \/ GenTechnical
    \/ GenWindow
    \/ GenTemplate
    \/ GenTemplatesDone
    \/ GenReturn

\* One call of generate_test_dataset; the interpreter keeps executing it.
SpecGen == InitGen /\ [][NextGen]_vars /\ WF_vars(NextGen)

\* C27: generate_test_dataset returns, whatever the random choices; the
\* list never holds more than target_size records while it is filled; and
\* the returned list has exactly target_size records.
C27_DatasetTerminates ==
    /\ <>(gen.pc = "returned")
    /\ [](Len(gen.dataset) <= gen.target_size)
    /\ [](gen.pc = "returned" => Len(gen.returned[1]) = gen.target_size)

\* C27 witness: a list of eight records was returned whose last records are
\* synthetic, the top-up loop having run through its templates more than
\* once.
C27_Witness ==
    /\ gen.pc = "returned"
    /\ gen.target_size = 8
    /\ Len(gen.returned[1]) = 8
    /\ Len(gen.base_texts) = 3
    /\ Cardinality({j \in 1..8 : gen.dataset[j].source = "synthetic"}) = 4

====
